---- MODULE Spec2Model ----
(***************************************************************************)
(* Model of sciencebeam_gym/trainer/models/pix2pix/pix2pix_model.py:       *)
(* the colour/dimension codec, the summary image assembler, the graph      *)
(* builder with its example reader and batching queue, and                 *)
(* format_metric_values.                                                   *)
(*                                                                         *)
(* Representation.  A float32 value x is the integer x * One (One = 510);  *)
(* every float the model produces is a multiple of 1/510.  A uint8 value   *)
(* is an integer 0..255.  An image is a sequence of pixels (batch, height  *)
(* and width flattened into one index), a pixel a tuple of channels.       *)
(* Python's None is a record with none = TRUE.                             *)
(***************************************************************************)
EXTENDS Integers, Sequences, FiniteSets, TLC

(* ---- bounds ---- *)
NumPixels == 2
MaxColors == 2
MaxMetrics == 2
NumRecords == 2
MaxBatchSize == 2
MaxPasses == 3

(* ---- program constants ---- *)
TRAIN == 1
EVALUATE == 2
PREDICT == 3
image_width == 256
image_height == 256

GraphModes == {TRAIN, EVALUATE, PREDICT}

One == 2 * 255
Half == One \div 2

Black == <<0, 0, 0>>
White == <<255, 255, 255>>
Red == <<255, 0, 0>>
Green == <<0, 255, 0>>
Grey == <<128, 128, 128>>

Palette == {Black, Red, Green, Grey, White}
ColorChoices == {Black, Red, Green, Grey}
PredLevels == {0 - Half, 0, Half, One}

SeqsUpTo(S, lo, hi) == UNION {[1..n -> S] : n \in lo..hi}

VARIABLES
  metric_values, formatted,
  image, colors, replace_flag, masks, batch_images, combined, stage,
  dimension_colors, dimension_labels, call, tensors, summary_images,
  reader, producers, queue, batch, reads

formatVars == <<metric_values, formatted>>
codecVars == <<image, colors, replace_flag, masks, batch_images, combined, stage>>
modelVars == <<dimension_colors, dimension_labels>>
graphVars == <<call, tensors, summary_images>>
runVars == <<reader, producers, queue, batch, reads>>
vars == <<formatVars, codecVars, modelVars, graphVars, runVars>>

(***************************************************************************)
(* format_metric_values                                                    *)
(***************************************************************************)
PyNone == [none |-> TRUE, val |-> 0]
PyNum(v) == [none |-> FALSE, val |-> v]
PyNoneList == [none |-> TRUE, items |-> <<>>]
PyList(s) == [none |-> FALSE, items |-> s]

(* Numbers are held in ten-thousandths; none ends in 5, so that rounding *)
(* to three decimals never meets a tie.                                  *)
MetricNumbers == {0, 1234, 5000, 7500, 9996, 0 - 1234}
MetricElements == {PyNone} \cup {PyNum(v) : v \in MetricNumbers}
MetricInputs == {PyNoneList} \cup {PyList(s) : s \in SeqsUpTo(MetricElements, 0, MaxMetrics)}

Pad3(n) ==
  IF n < 10 THEN "00" \o ToString(n)
  ELSE IF n < 100 THEN "0" \o ToString(n)
  ELSE ToString(n)

(* '%.3f' % x for x = v / 10000 *)
FormatFixed3(v) ==
  LET mag == IF v < 0 THEN 0 - v ELSE v
      r == (mag + 5) \div 10
  IN (IF v < 0 THEN "-" ELSE "") \o ToString(r \div 1000) \o "." \o Pad3(r % 1000)

(* metric_values[i] (0-based i) raises TypeError on None and IndexError   *)
(* past the end; '%.3f' % None raises TypeError.                          *)
Formattable(mv, i) ==
  /\ ~mv.none
  /\ Len(mv.items) > i
  /\ ~mv.items[i + 1].none

(* Both assignments sit in one try block: the first exception skips the   *)
(* rest of the block.                                                     *)
format_metric_values(mv) ==
  LET loss_ok == Formattable(mv, 0)
      accuracy_ok == loss_ok /\ Formattable(mv, 1)
      loss_str == IF loss_ok THEN FormatFixed3(mv.items[1].val) ELSE "N/A"
      accuracy_str == IF accuracy_ok THEN FormatFixed3(mv.items[2].val) ELSE "N/A"
  IN loss_str \o ", " \o accuracy_str

FormatIdle == metric_values = PyNoneList /\ formatted = ""

InitFormat ==
  /\ metric_values \in MetricInputs
  /\ formatted = ""

FormatMetricValues ==
  /\ formatted = ""
  /\ formatted' = format_metric_values(metric_values)
  /\ UNCHANGED metric_values

(***************************************************************************)
(* Colour/dimension codec                                                  *)
(***************************************************************************)
PixelIndex == 1..NumPixels

colors_to_dimensions_any(image_tensor, cs) ==
  [p \in DOMAIN image_tensor |->
    [c \in 1..Len(cs) |->
      IF \E k \in 1..3 : image_tensor[p][k] = cs[c][k] THEN One ELSE 0]]

colors_to_dimensions_reversed(image_tensor, cs) ==
  [p \in DOMAIN image_tensor |->
    [c \in 1..Len(cs) |->
      IF \A k \in 1..3 : image_tensor[p][k] = cs[Len(cs) + 1 - c][k] THEN One ELSE 0]]

colors_to_dimensions(image_tensor, cs) ==
  [p \in DOMAIN image_tensor |->
    [c \in 1..Len(cs) |->
      IF \A k \in 1..3 : image_tensor[p][k] = cs[c][k] THEN One ELSE 0]]

(* image_tensor[:, :, :, i] expanded to one channel, times color / 255.0 *)
batch_dimensions_to_colors_list(image_tensor, cs) ==
  [i \in 1..Len(cs) |->
    [p \in DOMAIN image_tensor |->
      [k \in 1..3 |-> (image_tensor[p][i] * cs[i][k]) \div 255]]]

Clamp(x, lo, hi) == IF x < lo THEN lo ELSE IF x > hi THEN hi ELSE x

(* tf.image.convert_image_dtype(float32 -> uint8, saturate=True):          *)
(* saturate_cast(x * 255.5): clamp to 0..255, then truncate.               *)
SaturateCastUint8(x) == Clamp(x * 511, 0, 255 * 2 * One) \div (2 * One)

convert_image(image_tensor) ==
  [p \in DOMAIN image_tensor |->
    [k \in DOMAIN image_tensor[p] |-> SaturateCastUint8(image_tensor[p][k])]]

replace_black_with_white_color_any(image_tensor) ==
  [p \in DOMAIN image_tensor |->
    IF \E k \in 1..3 : image_tensor[p][k] = 0
    THEN [k \in 1..3 |-> 255]
    ELSE image_tensor[p]]

replace_black_with_white_color(image_tensor) ==
  [p \in DOMAIN image_tensor |->
    IF \A k \in 1..3 : image_tensor[p][k] = Black[k]
    THEN [k \in 1..3 |-> 255]
    ELSE image_tensor[p]]

ImageAdd(a, b) ==
  [p \in DOMAIN a |-> [k \in DOMAIN a[p] |-> a[p][k] + b[p][k]]]

(* six.moves.reduce(lambda a, b: a + b, batch_images), non-empty list *)
RECURSIVE ReduceAdd(_, _)
ReduceAdd(images, n) ==
  IF n = 1 THEN images[1] ELSE ImageAdd(ReduceAdd(images, n - 1), images[n])

combine_image(images, replace_black_with_white) ==
  LET combined_image == convert_image(ReduceAdd(images, Len(images)))
  IN IF replace_black_with_white
     THEN replace_black_with_white_color(combined_image)
     ELSE combined_image

CodecIdle ==
  /\ image = <<>> /\ colors = <<>> /\ replace_flag = FALSE
  /\ masks = <<>> /\ batch_images = <<>> /\ combined = <<>> /\ stage = "idle"

InitCodec ==
  /\ image \in [PixelIndex -> Palette]
  /\ colors \in SeqsUpTo(ColorChoices, 1, MaxColors)
  /\ replace_flag = FALSE
  /\ masks = <<>> /\ batch_images = <<>> /\ combined = <<>>
  /\ stage = "image"

ColorsToDimensions ==
  /\ stage = "image"
  /\ masks' = colors_to_dimensions(image, colors)
  /\ stage' = "masks"
  /\ UNCHANGED <<image, colors, replace_flag, batch_images, combined>>

(* The weighted images of the target masks. *)
TargetsToColors ==
  /\ stage = "masks"
  /\ batch_images' = batch_dimensions_to_colors_list(masks, colors)
  /\ stage' = "weighted"
  /\ UNCHANGED <<image, colors, replace_flag, masks, combined>>

(* The weighted images of a prediction tensor: any level per channel, the *)
(* same at every pixel.                                                   *)
OutputsToColors ==
  /\ stage = "masks"
  /\ \E level \in [1..Len(colors) -> PredLevels] :
       batch_images' =
         batch_dimensions_to_colors_list([p \in PixelIndex |-> level], colors)
  /\ stage' = "weighted"
  /\ UNCHANGED <<image, colors, replace_flag, masks, combined>>

CombineImage ==
  /\ stage = "weighted"
  /\ \E flag \in BOOLEAN :
       /\ replace_flag' = flag
       /\ combined' = combine_image(batch_images, flag)
  /\ stage' = "combined"
  /\ UNCHANGED <<image, colors, masks, batch_images>>

(***************************************************************************)
(* Model.__init__: the colour map configuration                            *)
(***************************************************************************)
NoLabel == [none |-> TRUE, val |-> ""]
Label(s) == [none |-> FALSE, val |-> s]
LabelChoices == {NoLabel, Label(""), Label("figure"), Label("table")}

(* Python truthiness of an optional list: neither None nor empty *)
Truthy(l) == ~l.none /\ Len(l.items) > 0

(* dimension_colors and dimension_labels are both built over sorted_keys, *)
(* so they have the same length.                                          *)
ModelInit(color_lists, label_choices) ==
  \/ /\ dimension_colors = PyNoneList
     /\ dimension_labels = PyNoneList
  \/ \E cs \in color_lists :
       /\ dimension_colors = PyList(cs)
       /\ dimension_labels \in {PyList(ls) : ls \in [1..Len(cs) -> label_choices]}

ModelIdle == dimension_colors = PyNoneList /\ dimension_labels = PyNoneList

(***************************************************************************)
(* Summary images                                                          *)
(***************************************************************************)
Put(f, k, v) == [x \in DOMAIN f \cup {k} |-> IF x = k THEN v ELSE f[x]]

EmptyMap == [x \in {} |-> 0]

(* A graph under construction: the GraphReferences fields the summary     *)
(* code writes, and the tf.summary.image records of the graph.            *)
(* An image tensor of the graph is named by the op that makes it:         *)
(* convert is convert_image(of), combine is combine_image(list of of),    *)
(* dim the channel (0 for none), replace the black-to-white flag.         *)
ImageOp(op, of, dim, replace) == [op |-> op, of |-> of, dim |-> dim, replace |-> replace]

add_summary_image_unregistered(g, name, img) ==
  [g EXCEPT !.image_tensors = Put(@, name, img)]

add_summary_image(g, name, img) ==
  [g EXCEPT !.image_tensors = Put(@, name, img),
            !.summary_images = Append(@, [name |-> name, image |-> img])]

add_simple_summary_image(g, name, of, dim) ==
  add_summary_image(g, name, ImageOp("convert_image", of, dim, FALSE))

(* "_{}_{}".format(i, dimension_label if dimension_label else 'unknown_label') *)
Suffix(i, dimension_label) ==
  "_" \o ToString(i) \o "_" \o
    (IF ~dimension_label.none /\ dimension_label.val # ""
     THEN dimension_label.val ELSE "unknown_label")

Min(a, b) == IF a < b THEN a ELSE b

(* for i, (batch_image, dimension_label) in enumerate(zip(...)): the first *)
(* n pairs, i counted from 0                                               *)
RECURSIVE AddDimensionImages(_, _, _, _, _)
AddDimensionImages(g, prefix, of, labels, n) ==
  IF n = 0 THEN g
  ELSE add_simple_summary_image(
         AddDimensionImages(g, prefix, of, labels, n - 1),
         prefix \o Suffix(n - 1, labels[n]), of, n)

add_model_summary_images_white(g, colors_, labels_) ==
  LET g0 == [g EXCEPT !.summaries = EmptyMap]
      g1 == add_simple_summary_image(g0, "input", "image_tensor", 0)
      g2 == add_simple_summary_image(g1, "target", "annotation_tensor", 0)
  IN IF Truthy(colors_)
     THEN
       LET n == Min(Len(colors_.items), Len(labels_.items))
           g3 == AddDimensionImages(g2, "targets", "separate_channel_annotation_tensor",
                                    labels_.items, n)
           g4 == add_summary_image(g3, "targets_combined",
                   ImageOp("combine_image", "separate_channel_annotation_tensor", 0, TRUE))
           g5 == AddDimensionImages(g4, "outputs", "pred", labels_.items, n)
           out == ImageOp("combine_image", "pred", 0, TRUE)
           g6 == [g5 EXCEPT !.summaries = Put(@, "output_image", out)]
       IN add_summary_image(g6, "outputs_combined", out)
     ELSE
       LET g3 == add_simple_summary_image(g2, "output", "pred", 0)
       IN [g3 EXCEPT !.summaries = Put(@, "output_image", g3.image_tensors["output"])]

add_model_summary_images(g, colors_, labels_) ==
  LET g0 == [g EXCEPT !.summaries = EmptyMap]
      g1 == add_simple_summary_image(g0, "input", "image_tensor", 0)
      g2 == add_simple_summary_image(g1, "target", "annotation_tensor", 0)
  IN IF Truthy(colors_)
     THEN
       LET n == Min(Len(colors_.items), Len(labels_.items))
           g3 == AddDimensionImages(g2, "targets", "separate_channel_annotation_tensor",
                                    labels_.items, n)
           g4 == add_summary_image(g3, "targets_combined",
                   ImageOp("combine_image", "separate_channel_annotation_tensor", 0, FALSE))
           g5 == AddDimensionImages(g4, "outputs", "pred", labels_.items, n)
           out == ImageOp("combine_image", "pred", 0, FALSE)
           g6 == [g5 EXCEPT !.summaries = Put(@, "output_image", out)]
       IN add_summary_image(g6, "outputs_combined", out)
     ELSE
       LET g3 == add_simple_summary_image(g2, "output", "pred", 0)
       IN [g3 EXCEPT !.summaries = Put(@, "output_image", g3.image_tensors["output"])]

(***************************************************************************)
(* The serialized examples of the data source                              *)
(***************************************************************************)
Records == 1..NumRecords

PaletteSeq == <<Red, Green, Black, Grey, White>>

(* Record r: two uris and two PNG images; shape is (height, width), the   *)
(* pixels are the ones sampled at the centre of the image.                *)
RecordOf(r) ==
  [input_uri |-> "input_" \o ToString(r) \o ".png",
   annotation_uri |-> "annotation_" \o ToString(r) \o ".png",
   input_image |->
     [png |-> [shape |-> <<image_height + r, image_width - r>>,
               pixels |-> [p \in PixelIndex |-> PaletteSeq[((2 * r + p) % 5) + 1]]]],
   annotation_image |->
     [png |-> [shape |-> <<image_height + r, image_width - r>>,
               pixels |-> [p \in PixelIndex |-> PaletteSeq[((r + p - 2) % 5) + 1]]]]]

(***************************************************************************)
(* The per-example part of the graph (build_graph, parse to target)        *)
(***************************************************************************)
(* tf.image.decode_png(raw, channels=3) *)
decode_png(raw) ==
  [dtype |-> "uint8", shape |-> raw.png.shape, pixels |-> raw.png.pixels]

(* tf.image.resize_image_with_crop_or_pad: the centre of the image is kept *)
resize_image_with_crop_or_pad(t, h, w) == [t EXCEPT !.shape = <<h, w>>]

(* tf.image.convert_image_dtype(uint8 -> float32): x / 255 *)
convert_image_dtype_float32(t) ==
  [t EXCEPT !.dtype = "float32",
            !.pixels = [p \in DOMAIN t.pixels |->
                         [k \in DOMAIN t.pixels[p] |-> (t.pixels[p][k] * One) \div 255]]]

Tagged(r, t) == [src |-> r, tensor |-> t]

ExampleTensorsAlwaysRaw(r, dc) ==
  LET parsed == RecordOf(r)
      annotation_tensor ==
        convert_image_dtype_float32(
          resize_image_with_crop_or_pad(
            decode_png(parsed.annotation_image), image_height, image_width))
  IN [input_uri |-> Tagged(r, parsed.input_uri),
      annotation_uri |-> Tagged(r, parsed.annotation_uri),
      image_tensor |-> Tagged(r,
        convert_image_dtype_float32(
          resize_image_with_crop_or_pad(
            decode_png(parsed.input_image), image_height, image_width))),
      annotation_tensor |-> Tagged(r, annotation_tensor),
      separate_channel_annotation_tensor |-> Tagged(r, annotation_tensor)]

(* The five tensors of one example, all computed from the one parsed      *)
(* record; dc is the model's dimension_colors.                            *)
ExampleTensors(r, dc) ==
  LET parsed == RecordOf(r)
      image_tensor ==
        convert_image_dtype_float32(
          resize_image_with_crop_or_pad(
            decode_png(parsed.input_image), image_height, image_width))
      cropped ==
        resize_image_with_crop_or_pad(
          decode_png(parsed.annotation_image), image_height, image_width)
      annotation_tensor ==
        IF Truthy(dc) THEN cropped ELSE convert_image_dtype_float32(cropped)
      separate_channel_annotation_tensor ==
        IF Truthy(dc)
        THEN [dtype |-> "float32", shape |-> cropped.shape,
              pixels |-> colors_to_dimensions(cropped.pixels, dc.items)]
        ELSE annotation_tensor
  IN [input_uri |-> Tagged(r, parsed.input_uri),
      annotation_uri |-> Tagged(r, parsed.annotation_uri),
      image_tensor |-> Tagged(r, image_tensor),
      annotation_tensor |-> Tagged(r, annotation_tensor),
      separate_channel_annotation_tensor |-> Tagged(r, separate_channel_annotation_tensor)]

(***************************************************************************)
(* The example reader (read_examples) and the batching queue               *)
(***************************************************************************)
NoReader ==
  [active |-> FALSE, shuffle |-> FALSE, num_epochs |-> PyNone,
   epoch |-> 0, remaining |-> {}, eof |-> FALSE]

(* A reader over the records of data_paths, at the start of its first pass *)
read_examples(data_paths, shuffle, num_epochs) ==
  [active |-> TRUE, shuffle |-> shuffle, num_epochs |-> num_epochs,
   epoch |-> 1, remaining |-> Records, eof |-> FALSE]

ReaderCanRepeat(rd) == rd.num_epochs.none \/ rd.epoch < rd.num_epochs.val

(* The records the reader may yield next out of S: any when shuffled, the *)
(* first in source order otherwise.                                       *)
ReaderChoices(rd, S) ==
  IF rd.shuffle THEN S ELSE {r \in S : \A o \in S : r <= o}

Producers == {"p1", "p2"}
QueueCapacity == MaxBatchSize

Column(q, field, n) == [i \in 1..n |-> q[i][field]]

train_batch_crossed(q, batch_size) ==
  [input_uri |-> Column(q, "input_uri", batch_size),
   annotation_uri |-> Column(q, "annotation_uri", batch_size),
   image_tensor |-> Column(q, "image_tensor", batch_size),
   annotation_tensor |->
     [i \in 1..batch_size |-> q[batch_size + 1 - i]["annotation_tensor"]],
   separate_channel_annotation_tensor |->
     Column(q, "separate_channel_annotation_tensor", batch_size)]

(* tf.train.batch([five tensors], batch_size): dequeue_many(batch_size) of *)
(* the one queue of tuples, component by component                        *)
train_batch(q, batch_size) ==
  [input_uri |-> Column(q, "input_uri", batch_size),
   annotation_uri |-> Column(q, "annotation_uri", batch_size),
   image_tensor |-> Column(q, "image_tensor", batch_size),
   annotation_tensor |-> Column(q, "annotation_tensor", batch_size),
   separate_channel_annotation_tensor |->
     Column(q, "separate_channel_annotation_tensor", batch_size)]

NoBatch ==
  [input_uri |-> <<>>, annotation_uri |-> <<>>, image_tensor |-> <<>>,
   annotation_tensor |-> <<>>, separate_channel_annotation_tensor |-> <<>>]

(***************************************************************************)
(* Model.build_graph                                                       *)
(***************************************************************************)
is_training(graph_mode) == graph_mode = TRAIN \/ graph_mode = EVALUATE

(* shuffle=(graph_mode == GraphMode.TRAIN) *)
ReaderShuffle(graph_mode) == graph_mode = TRAIN

ReaderNumEpochsTwo(graph_mode) == PyNum(2)

(* num_epochs=None if is_training else 2 *)
ReaderNumEpochs(graph_mode) ==
  IF is_training(graph_mode) THEN PyNone ELSE PyNum(2)

NoCall == [data_paths |-> <<>>, batch_size |-> 0, graph_mode |-> 0]

NoTensors ==
  [built |-> FALSE, examples |-> "None",
   image_tensors |-> EmptyMap, summaries |-> EmptyMap]

GraphIdle == call = NoCall /\ tensors = NoTensors /\ summary_images = <<>>

RunIdle ==
  /\ reader = NoReader
  /\ producers = [t \in Producers |-> 0]
  /\ queue = <<>>
  /\ batch = NoBatch
  /\ reads = [r \in Records |-> 0]

DataPathChoices == {<<>>, <<"data/*.tfrecord">>}

build_graph(data_paths, batch_size, graph_mode) ==
  LET g == add_model_summary_images(
             [image_tensors |-> EmptyMap, summaries |-> EmptyMap,
              summary_images |-> <<>>],
             dimension_colors, dimension_labels)
  IN /\ ~tensors.built
     /\ call' = [data_paths |-> data_paths, batch_size |-> batch_size,
                 graph_mode |-> graph_mode]
     /\ reader' = IF data_paths # <<>>
                  THEN read_examples(data_paths, ReaderShuffle(graph_mode),
                                     ReaderNumEpochs(graph_mode))
                  ELSE NoReader
     /\ tensors' = [built |-> TRUE,
                    examples |-> IF data_paths # <<>> THEN "reader" ELSE "placeholder",
                    image_tensors |-> g.image_tensors,
                    summaries |-> g.summaries]
     /\ summary_images' = g.summary_images
     /\ UNCHANGED <<formatVars, codecVars, modelVars, producers, queue, batch, reads>>

BuildGraph ==
  \E dp \in DataPathChoices, bs \in 1..MaxBatchSize, mode \in GraphModes :
    build_graph(dp, bs, mode)

BuildTrainGraph ==
  \E dp \in DataPathChoices, bs \in 1..MaxBatchSize : build_graph(dp, bs, TRAIN)

BuildEvalGraph ==
  \E dp \in DataPathChoices, bs \in 1..MaxBatchSize : build_graph(dp, bs, EVALUATE)

(***************************************************************************)
(* Running the input pipeline of a built graph                             *)
(***************************************************************************)
Yield(t, r, rd) ==
  /\ reader' = rd
  /\ producers' = [producers EXCEPT ![t] = r]
  /\ reads' = [reads EXCEPT ![r] = @ + 1]

(* Producer t reads the next serialized example.  A pass that is used up  *)
(* is followed by the next one while the reader may repeat; the model     *)
(* follows an unbounded reader for MaxPasses passes.                      *)
ReadExample(t) ==
  /\ tensors.built /\ reader.active /\ ~reader.eof
  /\ producers[t] = 0
  /\ \/ /\ reader.remaining # {}
        /\ \E r \in ReaderChoices(reader, reader.remaining) :
             Yield(t, r, [reader EXCEPT !.remaining = @ \ {r}])
     \/ /\ reader.remaining = {}
        /\ ReaderCanRepeat(reader)
        /\ reader.epoch < MaxPasses
        /\ \E r \in ReaderChoices(reader, Records) :
             Yield(t, r, [reader EXCEPT !.epoch = @ + 1, !.remaining = Records \ {r}])
  /\ UNCHANGED <<formatVars, codecVars, modelVars, graphVars, queue, batch>>

(* The reader has finished its last pass: end of data, the queue closes *)
ReadEndOfData(t) ==
  /\ tensors.built /\ reader.active /\ ~reader.eof
  /\ producers[t] = 0
  /\ reader.remaining = {}
  /\ ~ReaderCanRepeat(reader)
  /\ reader' = [reader EXCEPT !.eof = TRUE]
  /\ UNCHANGED <<formatVars, codecVars, modelVars, graphVars, producers, queue, batch, reads>>

(* Without data_paths the serialized example is fed to the placeholder *)
FeedExample(t) ==
  /\ tensors.built /\ tensors.examples = "placeholder"
  /\ producers[t] = 0
  /\ \E r \in Records : producers' = [producers EXCEPT ![t] = r]
  /\ UNCHANGED <<formatVars, codecVars, modelVars, graphVars, reader, queue, batch, reads>>

(* Producer t evaluates the five tensors of its example and enqueues them *)
(* as one tuple.                                                          *)
Enqueue(t) ==
  /\ producers[t] # 0
  /\ Len(queue) < QueueCapacity
  /\ queue' = Append(queue, ExampleTensors(producers[t], dimension_colors))
  /\ producers' = [producers EXCEPT ![t] = 0]
  /\ UNCHANGED <<formatVars, codecVars, modelVars, graphVars, reader, batch, reads>>

DequeueBatch ==
  /\ tensors.built
  /\ Len(queue) >= call.batch_size
  /\ batch' = train_batch(queue, call.batch_size)
  /\ queue' = SubSeq(queue, call.batch_size + 1, Len(queue))
  /\ UNCHANGED <<formatVars, codecVars, modelVars, graphVars, reader, producers, reads>>

(***************************************************************************)
(* Specifications                                                          *)
(***************************************************************************)
RunColorLists == {<<>>, <<Black>>, <<Red, Green>>}
RunLabels == {Label("figure")}

Init ==
  /\ FormatIdle /\ CodecIdle
  /\ ModelInit(RunColorLists, RunLabels)
  /\ GraphIdle /\ RunIdle

Next ==
  \/ BuildGraph
  \/ BuildTrainGraph
  \/ BuildEvalGraph
  \/ \E t \in Producers : ReadExample(t)
  \/ \E t \in Producers : ReadEndOfData(t)
  \/ \E t \in Producers : FeedExample(t)
  \/ \E t \in Producers : Enqueue(t)
  \/ DequeueBatch

Spec == Init /\ [][Next]_vars

InitSummaries ==
  /\ FormatIdle /\ CodecIdle
  /\ ModelInit(SeqsUpTo(ColorChoices, 0, MaxColors), LabelChoices)
  /\ GraphIdle /\ RunIdle

NextSummaries == BuildGraph \/ BuildTrainGraph \/ BuildEvalGraph

SpecSummaries == InitSummaries /\ [][NextSummaries]_vars

InitCodecSpec == FormatIdle /\ InitCodec /\ ModelIdle /\ GraphIdle /\ RunIdle

NextCodec ==
  /\ \/ ColorsToDimensions
     \/ TargetsToColors
     \/ OutputsToColors
     \/ CombineImage
  /\ UNCHANGED <<formatVars, modelVars, graphVars, runVars>>

SpecCodec == InitCodecSpec /\ [][NextCodec]_vars

InitFormatSpec == InitFormat /\ CodecIdle /\ ModelIdle /\ GraphIdle /\ RunIdle

NextFormat ==
  /\ FormatMetricValues
  /\ UNCHANGED <<codecVars, modelVars, graphVars, runVars>>

SpecFormat == InitFormatSpec /\ [][NextFormat]_vars

(***************************************************************************)
(* Properties                                                              *)
(***************************************************************************)
ReadsFromFiles == tensors.built /\ call.data_paths # <<>>

RECURSIVE SumReads(_)
SumReads(n) == IF n = 0 THEN 0 ELSE reads[n] + SumReads(n - 1)

(* C1: a graph built over data_paths in EVALUATE or PREDICT mode reads    *)
(* unshuffled and bounded: no record is yielded more than 2 times, and    *)
(* end of data comes after every record was yielded exactly 2 times.      *)
C1_EvalPredictReaderBounded ==
  (ReadsFromFiles /\ call.graph_mode \in {EVALUATE, PREDICT}) =>
    /\ \A r \in Records : reads[r] <= 2
    /\ reader.eof => \A r \in Records : reads[r] = 2

(* C2: a graph built over data_paths in TRAIN mode has a shuffled reader  *)
(* with no epoch limit: it never signals end of data, it may always start *)
(* another pass, and an idle producer can always read on (up to the       *)
(* passes the model follows); the reader is shuffled in TRAIN mode only.  *)
C2_TrainReaderUnbounded ==
  ReadsFromFiles =>
    /\ reader.shuffle <=> call.graph_mode = TRAIN
    /\ call.graph_mode = TRAIN =>
         /\ reader.num_epochs.none
         /\ ~reader.eof
         /\ ReaderCanRepeat(reader)
         /\ \A t \in Producers :
              (producers[t] = 0 /\ (reader.remaining # {} \/ reader.epoch < MaxPasses))
                => ENABLED ReadExample(t)

C2_Witness ==
  /\ ReadsFromFiles /\ call.graph_mode = TRAIN
  /\ SumReads(NumRecords) > 2 * NumRecords
  /\ ~reader.eof

BatchFields ==
  {"input_uri", "annotation_uri", "image_tensor", "annotation_tensor",
   "separate_channel_annotation_tensor"}

(* C3: every emitted batch has exactly batch_size entries in each of its  *)
(* five tensors, and at every position the five entries come from the     *)
(* same source record.                                                    *)
C3_BatchLockstep ==
  batch # NoBatch =>
    /\ \A f \in BatchFields : Len(batch[f]) = call.batch_size
    /\ \A i \in 1..call.batch_size : \A f \in BatchFields :
         batch[f][i].src = batch.input_uri[i].src

C3_Witness ==
  /\ call.batch_size = 2
  /\ Len(batch.input_uri) = 2
  /\ batch.input_uri[1].src > batch.input_uri[2].src
  /\ batch.separate_channel_annotation_tensor[1].src
       # batch.separate_channel_annotation_tensor[2].src

(* each field rendered on its own *)
format_metric_values_split(mv) ==
  LET loss_str == IF Formattable(mv, 0) THEN FormatFixed3(mv.items[1].val) ELSE "N/A"
      accuracy_str == IF Formattable(mv, 1) THEN FormatFixed3(mv.items[2].val) ELSE "N/A"
  IN loss_str \o ", " \o accuracy_str

(* C4: format_metric_values fills its two fields independently: field i   *)
(* is the 3-decimal rendering of element i when that element is present   *)
(* and a number, and 'N/A' otherwise, whatever the other field is.        *)
C4_FieldsIndependent ==
  (formatted # "" /\ (metric_values.none \/ Len(metric_values.items) <= 2)) =>
    formatted = format_metric_values_split(metric_values)

(* C5: the mask stack has one channel per colour, in the order of colors; *)
(* channel c of a pixel is 1.0 if the pixel equals colors[c] in all three *)
(* components and 0.0 otherwise, so a pixel of no configured colour has   *)
(* only zero channels.                                                    *)
C5_MaskStack ==
  stage \in {"masks", "weighted", "combined"} =>
    \A p \in PixelIndex :
      /\ DOMAIN masks[p] = 1..Len(colors)
      /\ \A c \in 1..Len(colors) :
           /\ masks[p][c] \in {0, One}
           /\ masks[p][c] = One <=> image[p] = colors[c]
      /\ (\A c \in 1..Len(colors) : image[p] # colors[c]) =>
           \A c \in 1..Len(colors) : masks[p][c] = 0

C5_Witness ==
  /\ stage = "masks" /\ Len(colors) = 2
  /\ \E p, q \in PixelIndex :
       /\ \A c \in 1..2 : masks[p][c] = 0
       /\ \E c \in 1..2, k \in 1..3 : image[p][k] = colors[c][k]
       /\ masks[q][2] = One /\ masks[q][1] = 0

NoDuplicates(cs) == \A c, d \in 1..Len(cs) : cs[c] = cs[d] => c = d

(* the first channel holding the largest value *)
ArgMax(v) ==
  CHOOSE c \in DOMAIN v :
    /\ \A d \in DOMAIN v : v[d] <= v[c]
    /\ \A d \in DOMAIN v : v[d] = v[c] => c <= d

(* C6: with no colour listed twice, a pixel of colour colors[c] has       *)
(* exactly one channel at 1.0, channel c, and the colour of its argmax    *)
(* channel is the pixel's colour.                                         *)
C6_RoundTrip ==
  (stage \in {"masks", "weighted", "combined"} /\ NoDuplicates(colors)) =>
    \A p \in PixelIndex : \A c \in 1..Len(colors) :
      image[p] = colors[c] =>
        /\ {d \in 1..Len(colors) : masks[p][d] = One} = {c}
        /\ colors[ArgMax(masks[p])] = image[p]

C6_Witness ==
  /\ stage = "masks" /\ colors = <<Red, Green>>
  /\ \A p \in PixelIndex : image[p] = Green
  /\ \A p \in PixelIndex : masks[p] = <<0, One>>

RECURSIVE SumAt(_, _, _, _)
SumAt(images, n, p, k) ==
  IF n = 0 THEN 0 ELSE images[n][p][k] + SumAt(images, n - 1, p, k)

(* u is the saturating 0..255 integer for the float n / One *)
IsSaturated(n, u) ==
  /\ u \in 0..255
  /\ IF n <= 0 THEN u = 0
     ELSE IF n * 511 >= 255 * 2 * One THEN u = 255
     ELSE u * 2 * One <= n * 511 /\ n * 511 < (u + 1) * 2 * One

Composite == convert_image(ReduceAdd(batch_images, Len(batch_images)))

(* C7: the composite is the saturated 0..255 image of the element-wise    *)
(* sum; with the flag set exactly its (0,0,0) pixels become (255,255,255),*)
(* without it no pixel changes; all-zero weighted images give pure white  *)
(* with the flag and pure black without.                                  *)
C7_CombineImage ==
  stage = "combined" =>
    /\ \A p \in PixelIndex :
         LET sum == [k \in 1..3 |-> SumAt(batch_images, Len(batch_images), p, k)]
         IN IF replace_flag /\ \A k \in 1..3 : IsSaturated(sum[k], 0)
            THEN combined[p] = White
            ELSE \A k \in 1..3 : IsSaturated(sum[k], combined[p][k])
    /\ (\A i \in 1..Len(batch_images) : \A p \in PixelIndex : batch_images[i][p] = Black) =>
         \A p \in PixelIndex : combined[p] = IF replace_flag THEN White ELSE Black

C7_Witness ==
  /\ stage = "combined" /\ replace_flag
  /\ \E p, q \in PixelIndex :
       /\ Composite[p] = Black /\ combined[p] = White
       /\ Composite[q] # Black /\ combined[q] = Composite[q]
       /\ \E k \in 1..3 : Composite[q][k] = 0

ExpectedLabel(i) ==
  IF dimension_labels.items[i].none \/ dimension_labels.items[i].val = ""
  THEN "unknown_label" ELSE dimension_labels.items[i].val

ExpectedDimensionNames(prefix) ==
  {prefix \o "_" \o ToString(i - 1) \o "_" \o ExpectedLabel(i) :
     i \in 1..Len(dimension_colors.items)}

ExpectedNames ==
  {"input", "target"} \cup
    (IF Truthy(dimension_colors)
     THEN ExpectedDimensionNames("targets") \cup ExpectedDimensionNames("outputs")
            \cup {"targets_combined", "outputs_combined"}
     ELSE {"output"})

(* C8: the images produced are 'input' and 'target'; with dimension       *)
(* colours (a non-empty list) also 'targets_<i>_<label>' and              *)
(* 'outputs_<i>_<label>' for every dimension i, with 'unknown_label' for  *)
(* a missing label, plus 'targets_combined' and 'outputs_combined', both  *)
(* combined without the black-to-white replacement, and no 'output';      *)
(* without dimension colours only 'output', made of the raw prediction.   *)
C8_SummaryImageNames ==
  tensors.built =>
    /\ DOMAIN tensors.image_tensors = ExpectedNames
    /\ IF Truthy(dimension_colors)
       THEN /\ "output" \notin DOMAIN tensors.image_tensors
            /\ Cardinality(DOMAIN tensors.image_tensors)
                 = 4 + 2 * Len(dimension_colors.items)
            /\ tensors.image_tensors["targets_combined"]
                 = ImageOp("combine_image", "separate_channel_annotation_tensor", 0, FALSE)
            /\ tensors.image_tensors["outputs_combined"]
                 = ImageOp("combine_image", "pred", 0, FALSE)
            /\ \A i \in 1..Len(dimension_colors.items) :
                 /\ tensors.image_tensors["targets_" \o ToString(i - 1) \o "_" \o ExpectedLabel(i)]
                      = ImageOp("convert_image", "separate_channel_annotation_tensor", i, FALSE)
                 /\ tensors.image_tensors["outputs_" \o ToString(i - 1) \o "_" \o ExpectedLabel(i)]
                      = ImageOp("convert_image", "pred", i, FALSE)
       ELSE /\ DOMAIN tensors.image_tensors = {"input", "target", "output"}
            /\ tensors.image_tensors["output"] = ImageOp("convert_image", "pred", 0, FALSE)

C8_Witness ==
  /\ tensors.built
  /\ Len(dimension_colors.items) = 2
  /\ dimension_labels.items[1].none
  /\ dimension_labels.items[2] = Label("table")
  /\ "targets_0_unknown_label" \in DOMAIN tensors.image_tensors
  /\ "outputs_1_table" \in DOMAIN tensors.image_tensors

RecordNames == {summary_images[i].name : i \in 1..Len(summary_images)}

(* C9, as claimed: the names in the summaries mapping of the              *)
(* GraphReferences are the names of the image records of the monitoring   *)
(* system.                                                                *)
C9_SummariesHoldEveryImage ==
  tensors.built => DOMAIN tensors.summaries = RecordNames

(* C9, amended: every image is registered under one name in the           *)
(* image_tensors mapping of the GraphReferences and as an image record of *)
(* the monitoring system, so the names of image_tensors are the names of  *)
(* the image records; the summaries mapping holds only 'output_image'.    *)
C9_ImageTensorsHoldEveryImage ==
  tensors.built =>
    /\ DOMAIN tensors.image_tensors = RecordNames
    /\ \A i \in 1..Len(summary_images) :
         tensors.image_tensors[summary_images[i].name] = summary_images[i].image
    /\ Len(summary_images) = Cardinality(RecordNames)
    /\ DOMAIN tensors.summaries = {"output_image"}

C9_Witness ==
  /\ tensors.built
  /\ Truthy(dimension_colors)
  /\ Len(summary_images) = 4 + 2 * MaxColors
  /\ "outputs_combined" \in RecordNames

BatchedPositions == 1..Len(batch.input_uri)

(* The cropped annotation image of the record at position i of the batch *)
SourceAnnotation(i) ==
  RecordOf(batch.annotation_tensor[i].src).annotation_image.png.pixels

(* C10: with dimension colours (a non-empty list) the target is the mask  *)
(* stack of the integer annotation image, not the annotation image, which *)
(* stays integer-valued; without them the graph is built all the same,    *)
(* the annotation image is converted to float [0,1] and is both the       *)
(* annotation tensor and the target.                                      *)
C10_TargetSelection ==
  \A i \in BatchedPositions :
    LET annotation == batch.annotation_tensor[i].tensor
        target == batch.separate_channel_annotation_tensor[i].tensor
    IN IF Truthy(dimension_colors)
       THEN /\ annotation.dtype = "uint8"
            /\ annotation.pixels = SourceAnnotation(i)
            /\ target # annotation
            /\ target.dtype = "float32"
            /\ target.shape = <<image_height, image_width>>
            /\ \A p \in PixelIndex :
                 /\ DOMAIN target.pixels[p] = 1..Len(dimension_colors.items)
                 /\ \A c \in 1..Len(dimension_colors.items) :
                      target.pixels[p][c] =
                        IF SourceAnnotation(i)[p] = dimension_colors.items[c]
                        THEN One ELSE 0
       ELSE /\ annotation.dtype = "float32"
            /\ \A p \in PixelIndex : \A k \in 1..3 :
                 /\ annotation.pixels[p][k] * 255 = SourceAnnotation(i)[p][k] * One
                 /\ annotation.pixels[p][k] \in 0..One
            /\ target = annotation

C10_Witness ==
  /\ Truthy(dimension_colors)
  /\ Len(dimension_colors.items) = 2
  /\ \E i \in BatchedPositions : \E p \in PixelIndex :
       /\ batch.separate_channel_annotation_tensor[i].tensor.pixels[p][1] = One
       /\ batch.separate_channel_annotation_tensor[i].tensor.pixels[p][2] = 0
       /\ batch.annotation_tensor[i].tensor.pixels[p] = Red

====
